---- MODULE Spec2Model ----
(***************************************************************************)
(* A model of india_weather_forcast.py: get_weather_data (the Fetcher),    *)
(* save_weather_data (the Persister) and the __main__ block (the Driver).  *)
(*                                                                         *)
(* Three specifications share the variables:                               *)
(*   Spec         one run of the __main__ block, from a file that an       *)
(*                earlier run left (or no file);                           *)
(*   SpecFetch    get_weather_data applied to API responses;               *)
(*   SpecPersist  save_weather_data called again and again on one path.    *)
(***************************************************************************)
EXTENDS Integers, Sequences, FiniteSets, TLC

VARIABLES
    pc,                       \* position of the thread of control
    idx,                      \* position of the for loop in CITIES.items()
    cityState,                \* per city: PENDING / FETCHED / TAGGED / FAILED
    attempted,                \* history: the cities get_weather_data was called for
    response,                 \* what the API answered to the last request
    weather_df,               \* what get_weather_data returned (or raised)
    all_states_weather_data,  \* the list of tagged tables
    arg,                      \* history: the table save_weather_data was called with
    df,                       \* save_weather_data's local df
    file,                     \* india_weather_data.csv
    fileBefore,               \* history: the file when the run / the call started
    fileOps,                  \* history: reads and writes of the file, in order
    readOutcome,              \* how pd.read_csv ended in the current call
    result,                   \* how the current call of save_weather_data ended
    calls,                    \* history: calls of save_weather_data
    repeat                    \* history: this call repeats the previous call's table

vars == <<pc, idx, cityState, attempted, response, weather_df,
          all_states_weather_data, arg, df, file, fileBefore, fileOps,
          readOutcome, result, calls, repeat>>

(***************************************************************************)
(* Bounds.                                                                 *)
(***************************************************************************)
NumCities == 2      \* the run iterates over the first NumCities entries of CITIES
MaxEntries == 2     \* entries in the 'list' of one API response
MaxCalls == 2       \* calls of save_weather_data in SpecPersist

(***************************************************************************)
(* The city registry, in dict (insertion) order.                           *)
(***************************************************************************)
CITIES ==
    << "Dehradun", "Delhi", "Mumbai", "Kolkata", "Chennai", "Bengaluru",
       "Hyderabad", "Ahmedabad", "Pune", "Jaipur", "Lucknow", "Patna",
       "Bhopal", "Thiruvananthapuram", "Guwahati", "Ranchi", "Shillong",
       "Aizawl", "Imphal", "Itanagar", "Agartala", "Panaji", "Raipur",
       "Chandigarh", "Srinagar", "Shimla", "Gangtok" >>

Registry == SubSeq(CITIES, 1, NumCities)

(***************************************************************************)
(* Values.  A cell of the timestamp column is a Python str (what           *)
(* pd.read_csv gives) or a pandas Timestamp (what pd.to_datetime gives).   *)
(* An optional value is {} (None / NaN / empty CSV field) or {v}.          *)
(***************************************************************************)
None == {}
Some(v) == {v}

StrCell(s) == [kind |-> "str", text |-> s, day |-> 0, hour |-> 0]
Timestamp(d, h) == [kind |-> "Timestamp", text |-> "", day |-> d, hour |-> h]

\* the dt_txt strings of the API and the instants they denote
DtTable ==
    << [text |-> "2024-06-01 12:00:00", day |-> 1, hour |-> 12],
       [text |-> "2024-06-01 15:00:00", day |-> 1, hour |-> 15] >>

DtTxt == {DtTable[i].text : i \in DOMAIN DtTable}

\* pd.to_datetime on one dt_txt string
to_datetime(s) ==
    LET e == CHOOSE e \in {DtTable[i] : i \in DOMAIN DtTable} : e.text = s
    IN  Timestamp(e.day, e.hour)

\* str(Timestamp): how to_csv writes a Timestamp
TimestampStr(c) ==
    LET e == CHOOSE e \in {DtTable[i] : i \in DOMAIN DtTable} :
                 e.day = c.day /\ e.hour = c.hour
    IN  e.text

(***************************************************************************)
(* API responses.  An entry of weather_data['list'] is a dict: keys is the *)
(* set of keys it has ("rain.3h" is the key '3h' of the dict under 'rain').*)
(***************************************************************************)
RequiredKeys == {"dt_txt", "main", "wind", "clouds", "weather"}
OptionalKeySets == { {}, {"visibility"}, {"rain"}, {"rain", "rain.3h"},
                     {"visibility", "rain"}, {"visibility", "rain", "rain.3h"} }

Entry(keys, dt, temp) ==
    [keys |-> keys, dt_txt |-> dt, temp |-> temp, humidity |-> 40, speed |-> 3,
     pressure |-> 1008, visibility |-> 10000, rain3h |-> 2, all |-> 10,
     icon |-> "01d", description |-> "clear sky"]

Temps == {30, 31}

\* entries with every required key, and every combination of the optional ones
ValidEntries ==
    { Entry(RequiredKeys \cup o, dt, t) : o \in OptionalKeySets, dt \in DtTxt, t \in Temps }

\* entries that lack a required key
MalformedEntries ==
    { Entry((RequiredKeys \ {k}) \cup {"visibility"}, "2024-06-01 12:00:00", 30) :
        k \in {"main", "weather"} }

SeqsUpTo(S, n) == UNION { [1..k -> S] : k \in 0..n }

\* what requests.get / raise_for_status / json() can give
Json(l) == [kind |-> "ok", haslist |-> TRUE, list |-> l]
JsonNoList == [kind |-> "ok", haslist |-> FALSE, list |-> <<>>]
ConnectionError == [kind |-> "ConnectionError", haslist |-> FALSE, list |-> <<>>]
HTTPError == [kind |-> "HTTPError", haslist |-> FALSE, list |-> <<>>]
NoResponse == [kind |-> "none", haslist |-> FALSE, list |-> <<>>]

(***************************************************************************)
(* get_weather_data.                                                       *)
(***************************************************************************)
EmptyColumns ==
    [timestamps |-> <<>>, temperatures |-> <<>>, humidity |-> <<>>,
     wind_speed |-> <<>>, pressure |-> <<>>, visibility |-> <<>>,
     rainfall |-> <<>>, cloud_cover |-> <<>>, icons |-> <<>>,
     descriptions |-> <<>>]

\* item.get('visibility', None)
GetVisibility(item) ==
    IF "visibility" \in item.keys THEN Some(item.visibility) ELSE None

\* item.get('rain', {})['3h']-like lookup: the default only when 'rain' is absent
GetRainfallNoInnerDefault(item) ==
    IF "rain" \in item.keys THEN item.rain3h ELSE 0

\* item.get('rain', {}).get('3h', 0)
GetRainfall(item) ==
    IF "rain" \in item.keys /\ "rain.3h" \in item.keys THEN item.rain3h ELSE 0

\* a loop body that inserts at the front of each list instead of appending
PrependItem(cols, item) ==
    [timestamps   |-> <<item.dt_txt>> \o cols.timestamps,
     temperatures |-> <<item.temp>> \o cols.temperatures,
     humidity     |-> <<item.humidity>> \o cols.humidity,
     wind_speed   |-> <<item.speed>> \o cols.wind_speed,
     pressure     |-> <<item.pressure>> \o cols.pressure,
     visibility   |-> <<GetVisibility(item)>> \o cols.visibility,
     rainfall     |-> <<GetRainfall(item)>> \o cols.rainfall,
     cloud_cover  |-> <<item.all>> \o cols.cloud_cover,
     icons        |-> <<item.icon>> \o cols.icons,
     descriptions |-> <<item.description>> \o cols.descriptions]

\* one pass of the loop body for an item that has every key it subscripts
AppendItem(cols, item) ==
    [timestamps   |-> Append(cols.timestamps, item.dt_txt),
     temperatures |-> Append(cols.temperatures, item.temp),
     humidity     |-> Append(cols.humidity, item.humidity),
     wind_speed   |-> Append(cols.wind_speed, item.speed),
     pressure     |-> Append(cols.pressure, item.pressure),
     visibility   |-> Append(cols.visibility, GetVisibility(item)),
     rainfall     |-> Append(cols.rainfall, GetRainfall(item)),
     cloud_cover  |-> Append(cols.cloud_cover, item.all),
     icons        |-> Append(cols.icons, item.icon),
     descriptions |-> Append(cols.descriptions, item.description)]

\* the for loop: a subscript of a key the item lacks raises KeyError
RECURSIVE ExtractLoop(_, _)
ExtractLoop(items, cols) ==
    IF items = <<>> THEN [raised |-> FALSE, cols |-> cols]
    ELSE IF ~(RequiredKeys \subseteq Head(items).keys)
         THEN [raised |-> TRUE, cols |-> cols]
         ELSE ExtractLoop(Tail(items), AppendItem(cols, Head(items)))

\* pd.DataFrame({...}) followed by df['timestamp'] = pd.to_datetime(df['timestamp'])
DataFrame(cols) ==
    [i \in 1..Len(cols.timestamps) |->
        [timestamp   |-> to_datetime(cols.timestamps[i]),
         temperature |-> cols.temperatures[i],
         humidity    |-> cols.humidity[i],
         wind_speed  |-> cols.wind_speed[i],
         pressure    |-> cols.pressure[i],
         visibility  |-> cols.visibility[i],
         rainfall    |-> cols.rainfall[i],
         cloud_cover |-> cols.cloud_cover[i],
         icon        |-> cols.icons[i],
         description |-> cols.descriptions[i]]]

ReturnDf(rows) == [status |-> "df", rows |-> rows]
ReturnNone == [status |-> "None", rows |-> <<>>]
Raise(exc) == [status |-> exc, rows |-> <<>>]
NotCalled == [status |-> "none", rows |-> <<>>]

\* the except clause: only requests.exceptions.RequestException is caught
Caught(exc) == exc \in {"ConnectionError", "HTTPError"}

get_weather_data(resp) ==
    IF resp.kind # "ok"
    THEN IF Caught(resp.kind) THEN ReturnNone ELSE Raise(resp.kind)
    ELSE IF ~resp.haslist
         THEN IF Caught("KeyError") THEN ReturnNone ELSE Raise("KeyError")
         ELSE LET r == ExtractLoop(resp.list, EmptyColumns)
              IN  IF r.raised
                  THEN IF Caught("KeyError") THEN ReturnNone ELSE Raise("KeyError")
                  ELSE ReturnDf(DataFrame(r.cols))

(***************************************************************************)
(* The __main__ block's use of a table.                                    *)
(***************************************************************************)
\* weather_df['city'] = city
Tag(rows, city) ==
    [i \in 1..Len(rows) |->
        [timestamp   |-> rows[i].timestamp,
         temperature |-> rows[i].temperature,
         humidity    |-> rows[i].humidity,
         wind_speed  |-> rows[i].wind_speed,
         pressure    |-> rows[i].pressure,
         visibility  |-> rows[i].visibility,
         rainfall    |-> rows[i].rainfall,
         cloud_cover |-> rows[i].cloud_cover,
         icon        |-> rows[i].icon,
         description |-> rows[i].description,
         city        |-> city]]

\* pd.concat(all_states_weather_data, ignore_index=True)
RECURSIVE Concat(_)
Concat(tables) ==
    IF tables = <<>> THEN <<>> ELSE Head(tables) \o Concat(Tail(tables))

(***************************************************************************)
(* The CSV file and save_weather_data.                                     *)
(***************************************************************************)
NoFile == [exists |-> FALSE, rows |-> <<>>]
FileOf(lines) == [exists |-> TRUE, rows |-> lines]

\* the text to_csv writes for a cell of the timestamp column
CellText(c) == IF c.kind = "str" THEN c.text ELSE TimestampStr(c)

\* df.to_csv(filename, index=False): one line per row, the timestamp as text
ToCsv(rows) ==
    [i \in 1..Len(rows) |->
        [timestamp   |-> CellText(rows[i].timestamp),
         temperature |-> rows[i].temperature,
         humidity    |-> rows[i].humidity,
         wind_speed  |-> rows[i].wind_speed,
         pressure    |-> rows[i].pressure,
         visibility  |-> rows[i].visibility,
         rainfall    |-> rows[i].rainfall,
         cloud_cover |-> rows[i].cloud_cover,
         icon        |-> rows[i].icon,
         description |-> rows[i].description,
         city        |-> rows[i].city]]

\* pd.read_csv(filename): no parse_dates, so the timestamp column holds str
ReadCsv(lines) ==
    [i \in 1..Len(lines) |->
        [timestamp   |-> StrCell(lines[i].timestamp),
         temperature |-> lines[i].temperature,
         humidity    |-> lines[i].humidity,
         wind_speed  |-> lines[i].wind_speed,
         pressure    |-> lines[i].pressure,
         visibility  |-> lines[i].visibility,
         rainfall    |-> lines[i].rainfall,
         cloud_cover |-> lines[i].cloud_cover,
         icon        |-> lines[i].icon,
         description |-> lines[i].description,
         city        |-> lines[i].city]]

\* Python equality of two cells of an object column, as the hash table of
\* drop_duplicates applies it: a str and a Timestamp are never equal
PyEq(a, b) ==
    IF a.kind # b.kind THEN FALSE
    ELSE IF a.kind = "str" THEN a.text = b.text
         ELSE a.day = b.day /\ a.hour = b.hour

\* subset=['timestamp', 'city']
SameKey(r, s) == PyEq(r.timestamp, s.timestamp) /\ r.city = s.city

\* DataFrame.drop_duplicates(subset=...), keep='first'
RECURSIVE DropLoop(_, _)
DropLoop(rows, kept) ==
    IF rows = <<>> THEN kept
    ELSE IF \E k \in 1..Len(kept) : SameKey(kept[k], Head(rows))
         THEN DropLoop(Tail(rows), kept)
         ELSE DropLoop(Tail(rows), Append(kept, Head(rows)))

drop_duplicates(rows) == DropLoop(rows, <<>>)

\* pd.concat([existing_df, df]).drop_duplicates(subset=['timestamp', 'city'])
Merge(existing, new) == drop_duplicates(existing \o new)

\* an inner "except Exception: pass"
InnerCaughtAll(exc) == TRUE

\* the inner except clause: which failures of pd.read_csv it passes over
InnerCaught(exc) == exc = "FileNotFoundError"

(***************************************************************************)
(* Inputs.                                                                 *)
(***************************************************************************)
\* an entry as the API sends it, with a visibility and no rain
PlainEntry(dt, t) == Entry(RequiredKeys \cup {"visibility"}, dt, t)

\* SpecFetch: every response shape
FetchResponses ==
    {ConnectionError, HTTPError, JsonNoList}
        \cup { Json(l) : l \in SeqsUpTo(ValidEntries \cup MalformedEntries, MaxEntries) }

\* Spec: per city, a failure, or a list of plain entries and entries lacking 'main'
DriverEntries ==
    { PlainEntry(dt, 31) : dt \in DtTxt }
        \cup { Entry(RequiredKeys \ {"main"}, "2024-06-01 12:00:00", 31) }

DriverResponses ==
    {ConnectionError, HTTPError} \cup { Json(l) : l \in SeqsUpTo(DriverEntries, MaxEntries) }

\* the file a first run leaves when the first city answers one 12:00 entry at 30 degrees
EarlierRunFile ==
    FileOf(ToCsv(Tag(get_weather_data(
        Json(<< PlainEntry("2024-06-01 12:00:00", 30) >>)).rows, Registry[1])))

InitFiles == {NoFile, EarlierRunFile}

\* SpecPersist: the tables a run hands over when only the first city answers
PersistEntries == { PlainEntry(dt, t) : dt \in DtTxt, t \in Temps }

PersistTables ==
    { Tag(get_weather_data(Json(l)).rows, Registry[1]) :
        l \in SeqsUpTo(PersistEntries, MaxEntries) }

\* failures of pd.read_csv on a file that exists (empty file, bad permissions, ...)
ReadErrors == {"EmptyDataError", "PermissionError"}

(***************************************************************************)
(* The __main__ block.                                                     *)
(***************************************************************************)
\* lines 128-129: the call of get_weather_data for the next city
Fetch ==
    /\ pc = "loop"
    /\ idx <= Len(Registry)
    /\ \E resp \in DriverResponses :
         LET r == get_weather_data(resp)
         IN  /\ response' = resp
             /\ weather_df' = r
             /\ pc' = IF r.status \in {"df", "None"} THEN "branch" ELSE "crashed"
             /\ cityState' = [cityState EXCEPT ![idx] =
                                 IF r.status = "df" THEN "FETCHED"
                                 ELSE IF r.status = "None" THEN "FAILED" ELSE @]
    /\ attempted' = Append(attempted, idx)
    /\ UNCHANGED <<idx, all_states_weather_data, arg, df, file, fileBefore,
                   fileOps, readOutcome, result, calls, repeat>>

\* lines 131-133
TagAndAccumulate ==
    /\ pc = "branch"
    /\ weather_df.status = "df"
    /\ all_states_weather_data' =
           Append(all_states_weather_data, Tag(weather_df.rows, Registry[idx]))
    /\ cityState' = [cityState EXCEPT ![idx] = "TAGGED"]
    /\ idx' = idx + 1
    /\ pc' = "loop"
    /\ UNCHANGED <<attempted, response, weather_df, arg, df, file, fileBefore,
                   fileOps, readOutcome, result, calls, repeat>>

\* lines 134-135
SkipCity ==
    /\ pc = "branch"
    /\ weather_df.status = "None"
    /\ idx' = idx + 1
    /\ pc' = "loop"
    /\ UNCHANGED <<cityState, attempted, response, weather_df,
                   all_states_weather_data, arg, df, file, fileBefore, fileOps,
                   readOutcome, result, calls, repeat>>

\* save_weather_data called whatever the list holds
HasDataAlways(tables) == TRUE

\* the condition of line 138
HasData(tables) == tables # <<>>

\* lines 138-140: combine and call save_weather_data
CombineAndSave ==
    /\ pc = "loop"
    /\ idx > Len(Registry)
    /\ HasData(all_states_weather_data)
    /\ arg' = Concat(all_states_weather_data)
    /\ df' = arg'
    /\ calls' = calls + 1
    /\ pc' = "read"
    /\ UNCHANGED <<idx, cityState, attempted, response, weather_df,
                   all_states_weather_data, file, fileBefore, fileOps,
                   readOutcome, result, repeat>>

\* lines 141-142
NoData ==
    /\ pc = "loop"
    /\ idx > Len(Registry)
    /\ ~HasData(all_states_weather_data)
    /\ pc' = "done"
    /\ UNCHANGED <<idx, cityState, attempted, response, weather_df,
                   all_states_weather_data, arg, df, file, fileBefore, fileOps,
                   readOutcome, result, calls, repeat>>

(***************************************************************************)
(* save_weather_data, in two steps: the inner try (lines 77-81) and the    *)
(* write (lines 83-84); the outer except (lines 85-86) ends either.        *)
(***************************************************************************)
\* how pd.read_csv(filename) can end on file f
ReadOutcomes(f) == IF f.exists THEN {"ok"} \cup ReadErrors ELSE {"FileNotFoundError"}

\* lines 78-79: the file is read and merged
ReadAndMerge ==
    /\ pc = "read"
    /\ "ok" \in ReadOutcomes(file)
    /\ readOutcome' = "ok"
    /\ df' = Merge(ReadCsv(file.rows), df)
    /\ fileOps' = Append(fileOps, "read")
    /\ pc' = "write"
    /\ UNCHANGED <<idx, cityState, attempted, response, weather_df,
                   all_states_weather_data, arg, file, fileBefore, result, calls,
                   repeat>>

\* line 78 raises: lines 80-81 pass over it, or lines 85-86 end the call
ReadRaises ==
    /\ pc = "read"
    /\ \E exc \in ReadOutcomes(file) \ {"ok"} :
         /\ readOutcome' = exc
         /\ IF InnerCaught(exc)
            THEN pc' = "write" /\ result' = result
            ELSE pc' = "done" /\ result' = "error"
    /\ fileOps' = Append(fileOps, "read")
    /\ UNCHANGED <<idx, cityState, attempted, response, weather_df,
                   all_states_weather_data, arg, df, file, fileBefore, calls,
                   repeat>>

\* lines 83-84: the whole table is written over the file
WriteCsv ==
    /\ pc = "write"
    /\ file' = FileOf(ToCsv(df))
    /\ fileOps' = Append(fileOps, "write")
    /\ result' = "saved"
    /\ pc' = "done"
    /\ UNCHANGED <<idx, cityState, attempted, response, weather_df,
                   all_states_weather_data, arg, df, fileBefore, readOutcome,
                   calls, repeat>>

\* line 83 raises on opening the file: lines 85-86
WriteRaises ==
    /\ pc = "write"
    /\ fileOps' = Append(fileOps, "write")
    /\ result' = "error"
    /\ pc' = "done"
    /\ UNCHANGED <<idx, cityState, attempted, response, weather_df,
                   all_states_weather_data, arg, df, file, fileBefore,
                   readOutcome, calls, repeat>>

(***************************************************************************)
(* Spec: one run of the program.                                           *)
(***************************************************************************)
Init ==
    /\ pc = "loop"
    /\ idx = 1
    /\ cityState = [i \in 1..Len(Registry) |-> "PENDING"]
    /\ attempted = <<>>
    /\ response = NoResponse
    /\ weather_df = NotCalled
    /\ all_states_weather_data = <<>>
    /\ arg = <<>>
    /\ df = <<>>
    /\ file \in InitFiles
    /\ fileBefore = file
    /\ fileOps = <<>>
    /\ readOutcome = "none"
    /\ result = "none"
    /\ calls = 0
    /\ repeat = FALSE

Next ==
    \/ Fetch
    \/ TagAndAccumulate
    \/ SkipCity
    \/ CombineAndSave
    \/ NoData
    \/ ReadAndMerge
    \/ ReadRaises
    \/ WriteCsv
    \/ WriteRaises

Spec == Init /\ [][Next]_vars

(***************************************************************************)
(* SpecFetch: get_weather_data on every response shape.                    *)
(***************************************************************************)
InitFetch ==
    /\ pc = "idle"
    /\ idx = 1
    /\ cityState = [i \in 1..Len(Registry) |-> "PENDING"]
    /\ attempted = <<>>
    /\ response = NoResponse
    /\ weather_df = NotCalled
    /\ all_states_weather_data = <<>>
    /\ arg = <<>>
    /\ df = <<>>
    /\ file = NoFile
    /\ fileBefore = file
    /\ fileOps = <<>>
    /\ readOutcome = "none"
    /\ result = "none"
    /\ calls = 0
    /\ repeat = FALSE

FetchCall ==
    /\ pc = "idle"
    /\ \E resp \in FetchResponses :
         /\ response' = resp
         /\ weather_df' = get_weather_data(resp)
    /\ pc' = "returned"
    /\ UNCHANGED <<idx, cityState, attempted, all_states_weather_data, arg, df,
                   file, fileBefore, fileOps, readOutcome, result, calls, repeat>>

NextFetch == FetchCall

SpecFetch == InitFetch /\ [][NextFetch]_vars

(***************************************************************************)
(* SpecPersist: save_weather_data called up to MaxCalls times on one path. *)
(***************************************************************************)
InitPersist ==
    /\ pc = "idle"
    /\ idx = 1
    /\ cityState = [i \in 1..Len(Registry) |-> "PENDING"]
    /\ attempted = <<>>
    /\ response = NoResponse
    /\ weather_df = NotCalled
    /\ all_states_weather_data = <<>>
    /\ arg = <<>>
    /\ df = <<>>
    /\ file = NoFile
    /\ fileBefore = file
    /\ fileOps = <<>>
    /\ readOutcome = "none"
    /\ result = "none"
    /\ calls = 0
    /\ repeat = FALSE

\* save_weather_data(T, filename='india_weather_data.csv') is called
Call ==
    /\ pc \in {"idle", "done"}
    /\ calls < MaxCalls
    /\ \E T \in PersistTables :
         /\ arg' = T
         /\ df' = T
         /\ repeat' = (calls > 0 /\ result = "saved" /\ T = arg)
    /\ fileBefore' = file
    /\ fileOps' = <<>>
    /\ readOutcome' = "none"
    /\ result' = "none"
    /\ calls' = calls + 1
    /\ pc' = "read"
    /\ UNCHANGED <<idx, cityState, attempted, response, weather_df,
                   all_states_weather_data, file>>

NextPersist ==
    \/ Call
    \/ ReadAndMerge
    \/ ReadRaises
    \/ WriteCsv
    \/ WriteRaises

SpecPersist == InitPersist /\ [][NextPersist]_vars

(***************************************************************************)
(* Properties of get_weather_data (SpecFetch).                             *)
(***************************************************************************)
ValidResponse(resp) ==
    /\ resp.kind = "ok"
    /\ resp.haslist
    /\ \A i \in 1..Len(resp.list) : RequiredKeys \subseteq resp.list[i].keys

\* C9: for a valid response get_weather_data returns a table (also for an empty
\* list) with one row per entry of the list, in the order of the list: row i
\* carries the parsed dt_txt and the field values of entry i.
C9_OneRowPerEntryInOrder ==
    (pc = "returned" /\ ValidResponse(response)) =>
        /\ weather_df.status = "df"
        /\ Len(weather_df.rows) = Len(response.list)
        /\ \A i \in 1..Len(response.list) :
             LET row == weather_df.rows[i]
                 item == response.list[i]
             IN  /\ row.timestamp = to_datetime(item.dt_txt)
                 /\ row.temperature = item.temp
                 /\ row.humidity = item.humidity
                 /\ row.wind_speed = item.speed
                 /\ row.pressure = item.pressure
                 /\ row.cloud_cover = item.all
                 /\ row.icon = item.icon
                 /\ row.description = item.description

C9_Witness ==
    /\ pc = "returned"
    /\ ValidResponse(response)
    /\ Len(response.list) = 2
    /\ response.list[1].dt_txt # response.list[2].dt_txt
    /\ response.list[1].temp # response.list[2].temp
    /\ weather_df.status = "df"

\* C10: an entry without rain/3h gives rainfall 0 and an entry without
\* visibility gives a null visibility; the fetch still returns a table, and the
\* rows of the entries that have the fields carry the fields' values.
C10_OptionalFieldDefaults ==
    (pc = "returned" /\ ValidResponse(response)) =>
        /\ weather_df.status = "df"
        /\ Len(weather_df.rows) = Len(response.list)
        /\ \A i \in 1..Len(response.list) :
             LET row == weather_df.rows[i]
                 item == response.list[i]
             IN  /\ row.rainfall =
                        IF {"rain", "rain.3h"} \subseteq item.keys THEN item.rain3h ELSE 0
                 /\ row.visibility =
                        IF "visibility" \in item.keys THEN Some(item.visibility) ELSE None

C10_Witness ==
    /\ pc = "returned"
    /\ ValidResponse(response)
    /\ Len(response.list) = 2
    /\ response.list[1].keys = RequiredKeys \cup {"rain"}
    /\ response.list[2].keys = RequiredKeys \cup {"visibility", "rain", "rain.3h"}
    /\ weather_df.status = "df"
    /\ weather_df.rows[1].rainfall = 0
    /\ weather_df.rows[1].visibility = None
    /\ weather_df.rows[2].rainfall = response.list[2].rain3h
    /\ weather_df.rows[2].visibility = Some(response.list[2].visibility)

(***************************************************************************)
(* Properties of save_weather_data (SpecPersist).                          *)
(***************************************************************************)
\* the lines of f that hold the key of line l
LinesOfKey(lines, l) ==
    { i \in 1..Len(lines) :
        lines[i].timestamp = l.timestamp /\ lines[i].city = l.city }

NoDuplicateKeys(lines) ==
    \A i \in 1..Len(lines) : LinesOfKey(lines, lines[i]) = {i}

\* C1: a second call with the table of the call before it, both writing the
\* file, leaves the rows the first call left.
C1_IdempotentMerge ==
    (pc = "done" /\ repeat /\ result = "saved") => file.rows = fileBefore.rows

\* C2: a key the file held and the new table holds with other values is held
\* by exactly one line after the call, and that line is the prior one.
C2_PriorWins ==
    (pc = "done" /\ result = "saved" /\ readOutcome = "ok") =>
        \A p \in 1..Len(fileBefore.rows) : \A n \in 1..Len(arg) :
            LET prior == fileBefore.rows[p]
                new == ToCsv(arg)[n]
            IN  (/\ LinesOfKey(fileBefore.rows, prior) = {p}
                 /\ new.timestamp = prior.timestamp
                 /\ new.city = prior.city
                 /\ new # prior)
                => \E i \in 1..Len(file.rows) :
                     /\ LinesOfKey(file.rows, prior) = {i}
                     /\ file.rows[i] = prior

\* C3: whenever a call has written the file, the file holds at most one line
\* per (timestamp, city).
C3_OneRowPerKey ==
    (pc = "done" /\ result = "saved") => NoDuplicateKeys(file.rows)

\* C8 as stated: whenever pd.read_csv fails, for whatever reason, the call goes
\* on to write the file.
C8_AnyReadFailureStillWrites ==
    (pc = "done" /\ readOutcome \notin {"ok", "none"}) =>
        /\ Len(fileOps) = 2
        /\ fileOps[2] = "write"

\* C8 as amended: a missing file counts as no prior data and the new table is
\* written as it is; any other failure of the read ends the call with the error
\* reported, nothing raised, no write and the file as it was.
C8_OnlyMissingFileIsNoPriorData ==
    pc = "done" =>
        /\ result \in {"saved", "error"}
        /\ readOutcome = "FileNotFoundError" =>
             /\ fileOps = <<"read", "write">>
             /\ result = "saved" => file = FileOf(ToCsv(arg))
        /\ readOutcome \in ReadErrors =>
             /\ fileOps = <<"read">>
             /\ result = "error"
             /\ file = fileBefore

C8_Witness ==
    /\ pc = "done"
    /\ readOutcome \in ReadErrors
    /\ fileBefore.exists
    /\ fileBefore.rows # <<>>
    /\ arg # <<>>
    /\ result = "error"
    /\ file = fileBefore

(***************************************************************************)
(* Properties of a run (Spec).                                             *)
(***************************************************************************)
RunEnded == pc \in {"done", "crashed"}
Succeeded(i) == cityState[i] \in {"FETCHED", "TAGGED"}

\* C4: no run ends in an uncaught exception.
C4_NoHardFailure == pc # "crashed"

\* C5: a run in which the fetch of every city failed has not called
\* save_weather_data, has neither read nor written the file, and leaves the
\* file as it found it.
C5_ZeroSuccessLeavesFile ==
    (pc = "done" /\ \A i \in 1..Len(Registry) : cityState[i] = "FAILED") =>
        /\ calls = 0
        /\ fileOps = <<>>
        /\ file = fileBefore

C5_Witness ==
    /\ pc = "done"
    /\ \A i \in 1..Len(Registry) : cityState[i] = "FAILED"
    /\ Len(attempted) = Len(Registry)
    /\ fileBefore.exists
    /\ file = fileBefore

\* C6: save_weather_data is called only after the last city was attempted, once
\* if a city succeeded and not at all otherwise, and every run ends: RUNNING,
\* WRITING, DONE with a success and RUNNING, DONE without; the file is read at
\* most once and written at most once, the read first.
C6_SaveOnceAfterAllCities ==
    /\ calls > 0 => Len(attempted) = Len(Registry)
    /\ fileOps \in {<<>>, <<"read">>, <<"read", "write">>}
    /\ pc \in {"read", "write"} => calls = 1
    /\ RunEnded =>
         calls = IF \E i \in 1..Len(Registry) : Succeeded(i) THEN 1 ELSE 0

\* C7: every city is attempted once, in registry order, whatever the earlier
\* cities answered; each ends TAGGED or FAILED; the table handed to
\* save_weather_data is the concatenation of the tagged tables.
C7_EveryCityAttemptedInOrder ==
    /\ \A k \in 1..Len(attempted) : attempted[k] = k
    /\ RunEnded =>
         /\ Len(attempted) = Len(Registry)
         /\ \A i \in 1..Len(Registry) : cityState[i] \in {"TAGGED", "FAILED"}
         /\ calls > 0 => arg = Concat(all_states_weather_data)

====
